---- MODULE Spec2Model ----
(***************************************************************************)
(* A model of the two HTTP clients of gnosis-py:                           *)
(*   gnosis/eth/clients/blockscout_client.py    (BlockscoutClient)         *)
(*   gnosis/safe/api/transaction_service_api.py (TransactionServiceApi)    *)
(*                                                                         *)
(* Python values are tagged records ([t |-> "str", v |-> ...]); a str is a *)
(* sequence of one-character strings and a bytes value a sequence of       *)
(* numbers in 0..255, so that hex parsing, hex formatting, str() and       *)
(* str.strip() are computed and not assumed.  A call's outcome is either   *)
(* [kind |-> "return", value |-> v] or [kind |-> "raise", exc |-> e, ...]. *)
(***************************************************************************)
EXTENDS Integers, Sequences, FiniteSets, TLC

VARIABLES
    pc,        \* "call": the invocation (op, arg) is about to run; "done": it ran
    op,        \* name of the operation invoked
    arg,       \* its arguments (and, for pure functions, nothing else)
    ret,       \* its outcome: a return value or a raised exception
    requests,  \* the HTTP requests that invocation issued, in order
    now,       \* the wall clock, in half seconds since the epoch
    signed,    \* the hashes handed to signer_account.signHash, latest first
    client     \* the BlockscoutClient object under construction / in use

vars == <<pc, op, arg, ret, requests, now, signed, client>>

(***************************************************************************)
(* Bounds of the model.                                                    *)
(***************************************************************************)
MaxConfs == 3
MaxBucket == 2
StartBucket == 9
MaxParams == 2
MaxNested == 2

(***************************************************************************)
(* Python values.                                                          *)
(***************************************************************************)
None == [t |-> "None"]
PyStr(s) == [t |-> "str", v |-> s]
PyBytes(b) == [t |-> "bytes", v |-> b]
PyInt(i) == [t |-> "int", v |-> i]
PyBool(b) == [t |-> "bool", v |-> b]
PyList(l) == [t |-> "list", v |-> l]
PyDict(d) == [t |-> "dict", v |-> d]
EmptyDict == PyDict(<<>>)

\* bool(x): None, "", b"", [], {}, 0 and False are falsy.
Truthy(x) ==
    CASE x.t = "None" -> FALSE
      [] x.t \in {"str", "bytes", "list"} -> Len(x.v) > 0
      [] x.t = "dict" -> DOMAIN x.v # {}
      [] x.t = "int" -> x.v # 0
      [] x.t = "bool" -> x.v
      [] OTHER -> TRUE

Return(v) == [kind |-> "return", value |-> v]
Raise(e, m) == [kind |-> "raise", exc |-> e, message |-> m]

SeqsUpTo(S, n) == UNION {[1..k -> S] : k \in 0..n}

RECURSIVE Flatten(_)
Flatten(ss) == IF ss = <<>> THEN <<>> ELSE Head(ss) \o Flatten(Tail(ss))

(***************************************************************************)
(* Hexadecimal and decimal conversions.                                    *)
(***************************************************************************)
LowerHex == <<"0", "1", "2", "3", "4", "5", "6", "7", "8", "9",
              "a", "b", "c", "d", "e", "f">>
UpperHex == <<"0", "1", "2", "3", "4", "5", "6", "7", "8", "9",
              "A", "B", "C", "D", "E", "F">>

HexVal(c) == (CHOOSE i \in 1..16 : LowerHex[i] = c \/ UpperHex[i] = c) - 1

Has0x(s) == Len(s) >= 2 /\ s[1] = "0" /\ s[2] \in {"x", "X"}
Strip0x(s) == IF Has0x(s) THEN SubSeq(s, 3, Len(s)) ELSE s

RECURSIVE DigitsValue(_, _)
DigitsValue(s, base) ==
    IF s = <<>> THEN 0
    ELSE DigitsValue(SubSeq(s, 1, Len(s) - 1), base) * base + HexVal(s[Len(s)])

\* int(s, 16) of a str of hex digits with an optional 0x prefix.
int16(s) == DigitsValue(Strip0x(s), 16)

\* int(x) of an int or of a decimal str.
int10(x) == IF x.t = "int" THEN x.v ELSE DigitsValue(x.v, 10)

RECURSIVE DecimalDigits(_)
DecimalDigits(n) ==
    IF n < 10 THEN <<LowerHex[n + 1]>>
    ELSE DecimalDigits(n \div 10) \o <<LowerHex[(n % 10) + 1]>>

\* str(x) of a str (itself) or of a non-negative int (its decimal digits).
str(x) == IF x.t = "str" THEN x.v ELSE DecimalDigits(x.v)

RECURSIVE PairsToBytes(_)
PairsToBytes(s) ==
    IF s = <<>> THEN <<>>
    ELSE <<HexVal(s[1]) * 16 + HexVal(s[2])>> \o PairsToBytes(SubSeq(s, 3, Len(s)))

\* HexBytes(x): bytes stay as they are; a hex str loses its 0x prefix, is
\* left-padded with "0" to an even length and is decoded two digits a byte.
HexBytes(x) ==
    IF x.t = "bytes" THEN x
    ELSE LET h == Strip0x(x.v)
             p == IF Len(h) % 2 = 1 THEN <<"0">> \o h ELSE h
         IN  PyBytes(PairsToBytes(p))

RECURSIVE BytesToHex(_)
BytesToHex(b) ==
    IF b = <<>> THEN <<>>
    ELSE <<LowerHex[(b[1] \div 16) + 1], LowerHex[(b[1] % 16) + 1]>>
            \o BytesToHex(Tail(b))

\* HexBytes.hex(): "0x" followed by two lower-case digits per byte.
hex(b) == <<"0", "x">> \o BytesToHex(b.v)

(***************************************************************************)
(* TransactionServiceApi.parse_signatures                                  *)
(***************************************************************************)
\* sorted(l, key=lambda x: int(x["owner"], 16)): a stable sort.
RECURSIVE InsertByOwner(_, _)
InsertByOwner(x, s) ==
    IF s = <<>> THEN <<x>>
    ELSE IF int16(s[Len(s)].v.owner.v) <= int16(x.v.owner.v) THEN Append(s, x)
    ELSE Append(InsertByOwner(x, SubSeq(s, 1, Len(s) - 1)), s[Len(s)])

\* A slip: the confirmations taken in the order the service sent them.
sorted_unsorted(l) == l

RECURSIVE sorted_by_owner(_)
sorted_by_owner(l) ==
    IF l = <<>> THEN <<>>
    ELSE InsertByOwner(l[Len(l)], sorted_by_owner(SubSeq(l, 1, Len(l) - 1)))

\* [... for confirmation in ... if confirmation["signatureType"] == "EOA"]
RECURSIVE eoa_only(_)
eoa_only(l) ==
    IF l = <<>> THEN <<>>
    ELSE IF Head(l).v.signatureType = PyStr(<<"E", "O", "A">>)
         THEN <<Head(l)>> \o eoa_only(Tail(l))
         ELSE eoa_only(Tail(l))

\* The list the comprehension builds: one HexBytes per kept confirmation.
signature_parts(confirmations) ==
    LET kept == eoa_only(sorted_by_owner(confirmations))
    IN  [i \in 1..Len(kept) |-> HexBytes(kept[i].v.signature).v]

\* A slip: the confirmations read before the `signatures` field.
parse_signatures_confirmations_first(raw_tx) ==
    IF Truthy(raw_tx.v.confirmations)
    THEN PyBytes(Flatten(signature_parts(raw_tx.v.confirmations.v)))
    ELSE IF Truthy(raw_tx.v.signatures) THEN raw_tx.v.signatures
    ELSE None

parse_signatures(raw_tx) ==
    IF Truthy(raw_tx.v.signatures) THEN raw_tx.v.signatures
    ELSE IF Truthy(raw_tx.v.confirmations)
         THEN PyBytes(Flatten(signature_parts(raw_tx.v.confirmations.v)))
         ELSE None

(***************************************************************************)
(* Inputs: transaction records as the relay service sends them.            *)
(***************************************************************************)
EOA == PyStr(<<"E", "O", "A">>)
CONTRACT_SIGNATURE == PyStr(<<"C", "O", "N", "T", "R", "A", "C", "T">>)

Owners == {PyStr(<<"0", "x", "0", "2">>), PyStr(<<"0", "x", "0", "1">>),
           PyStr(<<"0", "x", "0", "A">>)}
SignatureStrs == {PyStr(<<"0", "x", "a", "a">>), PyStr(<<"0", "x", "B", "b">>)}
SignatureTypes == {EOA, CONTRACT_SIGNATURE}

Confirmations ==
    {PyDict([owner |-> o, signature |-> s, signatureType |-> ty]) :
        o \in Owners, s \in SignatureStrs, ty \in SignatureTypes}

SignaturesFields == {None, PyStr(<<>>), PyStr(<<"0", "x", "c", "c", "d", "d">>)}
TransactionHashFields ==
    {None, PyStr(<<>>), PyStr(<<"0", "x">>), PyStr(<<"0", "x", "E", "e">>)}

RawTx(sigs, confs, txh) ==
    PyDict([safe |-> PyStr(<<"0", "x", "5", "a">>),
            to |-> PyStr(<<"0", "x", "7", "0">>),
            value |-> PyStr(<<"1", "0">>),
            data |-> None,
            operation |-> PyInt(0),
            safeTxGas |-> PyInt(0),
            baseGas |-> PyInt(0),
            gasPrice |-> PyStr(<<"0">>),
            gasToken |-> PyStr(<<"0", "x", "0", "0">>),
            refundReceiver |-> PyStr(<<"0", "x", "0", "0">>),
            nonce |-> PyInt(7),
            signatures |-> sigs,
            confirmations |-> confs,
            transactionHash |-> txh])

(***************************************************************************)
(* HTTP.  A response is [ok, content, json]; a request [method, url, json].*)
(* SafeBaseAPI's request helpers join the path to base_url and issue one   *)
(* request with the requests library.                                      *)
(***************************************************************************)
base_url == "https://safe-transaction.mainnet.gnosis.io"
chain_id == PyInt(1)
ethereum_client == None

\* urljoin(base, path) with an absolute path and a base that has none.
urljoin(base, path) == <<base>> \o path

_get_request(path) ==
    <<[method |-> "GET", url |-> urljoin(base_url, path), json |-> None]>>
_post_request(path, payload) ==
    <<[method |-> "POST", url |-> urljoin(base_url, path), json |-> payload]>>
_delete_request(path, payload) ==
    <<[method |-> "DELETE", url |-> urljoin(base_url, path), json |-> payload]>>
requests_post(url, payload) ==
    <<[method |-> "POST", url |-> url, json |-> payload]>>

dict_get(d, k, default) == IF k \in DOMAIN d.v THEN d.v[k] ELSE default

SafeAPIException(prefix, response) ==
    Raise("SafeAPIException", prefix \o response.content)

ErrorBodies == {<<"Not found.">>, <<"Internal ", "error">>}
ErrorResponses ==
    {[ok |-> FALSE, content |-> b, json |-> None] : b \in ErrorBodies}
OkResponse(j) == [ok |-> TRUE, content |-> <<>>, json |-> j]

(***************************************************************************)
(* TransactionServiceApi.get_safe_transaction                              *)
(***************************************************************************)
\* gnosis.safe.SafeTx: the constructor stores its arguments; no transaction
\* hash is attached until one is assigned.
SafeTx(eth, safe, to, value, data, operation, safe_tx_gas, base_gas, gas_price, gas_token, refund_receiver, signatures, safe_nonce, chain) ==
    [ethereum_client |-> eth, safe_address |-> safe, to |-> to,
     value |-> value, data |-> data, operation |-> operation,
     safe_tx_gas |-> safe_tx_gas, base_gas |-> base_gas,
     gas_price |-> gas_price, gas_token |-> gas_token,
     refund_receiver |-> refund_receiver, signatures |-> signatures,
     safe_nonce |-> safe_nonce, chain_id |-> chain, tx_hash |-> None]

\* A slip: the parsed signatures passed on as they are.
signatures_unchanged(signatures) == signatures

\* signatures=signatures if signatures else b""
signatures_or_empty(signatures) ==
    IF Truthy(signatures) THEN signatures ELSE PyBytes(<<>>)

\* HexBytes(result["transactionHash"]) if result["transactionHash"] else None
executed_tx_hash(result) ==
    IF Truthy(result.v.transactionHash)
    THEN HexBytes(result.v.transactionHash)
    ELSE None

\* if tx_hash: safe_tx.tx_hash = tx_hash
attach_tx_hash(safe_tx, tx_hash) ==
    IF Truthy(tx_hash) THEN [safe_tx EXCEPT !.tx_hash = tx_hash] ELSE safe_tx

get_safe_transaction(safe_tx_hash, response) ==
    IF ~response.ok
    THEN SafeAPIException(
            <<"Cannot get transaction with safe-tx-hash=">>
                \o safe_tx_hash \o <<": ">>, response)
    ELSE LET result == response.json
             signatures == parse_signatures(result)
             safe_tx == SafeTx(ethereum_client,
                               result.v.safe,
                               result.v.to,
                               int10(result.v.value),
                               IF Truthy(result.v.data)
                                   THEN HexBytes(result.v.data)
                                   ELSE PyBytes(<<>>),
                               int10(result.v.operation),
                               int10(result.v.safeTxGas),
                               int10(result.v.baseGas),
                               int10(result.v.gasPrice),
                               result.v.gasToken,
                               result.v.refundReceiver,
                               signatures_or_empty(signatures),
                               int10(result.v.nonce),
                               chain_id)
             tx_hash == executed_tx_hash(result)
         IN  Return(<<attach_tx_hash(safe_tx, tx_hash), tx_hash>>)

multisig_transaction_path(safe_tx_hash) ==
    <<"/api/v1/multisig-transactions/">> \o safe_tx_hash \o <<"/">>

TxHashInputs == {PyBytes(<<171, 1>>), PyStr(<<"0", "x", "A", "B", "0", "1">>)}

(***************************************************************************)
(* The state before a call runs.  Both clients are request/response        *)
(* adapters that keep nothing between calls, so a behaviour starts with    *)
(* one invocation chosen by the caller and about to run.                   *)
(***************************************************************************)
NoClient == [constructed |-> FALSE, network |-> "none", base_url |-> None,
             grahpql_url |-> None, sessions |-> 0]

\* The clock counts half seconds: time.time() has a fractional part, which
\* int() drops.  The model's instants are the start, the first half second
\* and the last half second of each of the buckets StartBucket..+MaxBucket.
SecondsPerBucket == 3600
FirstInstant == StartBucket * SecondsPerBucket * 2
Instants ==
    {(StartBucket + b) * SecondsPerBucket * 2 + o :
        b \in 0..MaxBucket, o \in {0, 1, SecondsPerBucket * 2 - 1}}

Pending(o, a) ==
    /\ pc = "call"
    /\ op = o
    /\ arg = a
    /\ ret = Return(None)
    /\ requests = <<>>
    /\ now = FirstInstant
    /\ signed = <<>>
    /\ client = NoClient

Calling(o) == pc = "call" /\ op = o
Done(o) == pc = "done" /\ op = o

(***************************************************************************)
(* parse_signatures and get_safe_transaction.                              *)
(***************************************************************************)
ParseSignatures ==
    /\ Calling("parse_signatures")
    /\ pc' = "done"
    /\ ret' = Return(parse_signatures(arg))
    /\ requests' = <<>>
    /\ UNCHANGED <<op, arg, now, signed, client>>

GetSafeTransaction ==
    /\ Calling("get_safe_transaction")
    /\ LET safe_tx_hash == hex(HexBytes(arg.safe_tx_hash))
       IN  /\ requests' = _get_request(multisig_transaction_path(safe_tx_hash))
           /\ ret' = get_safe_transaction(safe_tx_hash, arg.response)
    /\ pc' = "done"
    /\ UNCHANGED <<op, arg, now, signed, client>>

GetSafeTransactionCall(h, response) ==
    Pending("get_safe_transaction", [safe_tx_hash |-> h, response |-> response])

SignaturesInit ==
    \/ \E sigs \in SignaturesFields, k \in 0..MaxConfs :
          \E confs \in [1..k -> Confirmations] :
             \/ Pending("parse_signatures", RawTx(sigs, PyList(confs), None))
             \/ GetSafeTransactionCall(
                    PyBytes(<<171, 1>>),
                    OkResponse(RawTx(sigs, PyList(confs), None)))
    \/ \E sigs \in SignaturesFields, k \in 0..1, h \in TxHashInputs :
          \E confs \in [1..k -> Confirmations], txh \in TransactionHashFields :
             GetSafeTransactionCall(h, OkResponse(RawTx(sigs, PyList(confs), txh)))
    \/ \E h \in TxHashInputs, response \in ErrorResponses :
          GetSafeTransactionCall(h, response)

SignaturesNext ==
    \/ ParseSignatures
    \/ GetSafeTransaction

SpecSignatures == SignaturesInit /\ [][SignaturesNext]_vars

(***************************************************************************)
(* Properties of signature aggregation.                                    *)
(***************************************************************************)
\* The bytes of the two signature strings of the model, written out.
SigBytes(s) == IF s = PyStr(<<"0", "x", "a", "a">>) THEN <<170>> ELSE <<187>>

OwnerNumber(c) ==
    CASE c.v.owner = PyStr(<<"0", "x", "0", "1">>) -> 1
      [] c.v.owner = PyStr(<<"0", "x", "0", "2">>) -> 2
      [] c.v.owner = PyStr(<<"0", "x", "0", "A">>) -> 10

EoaIndices(confs) == {i \in 1..Len(confs) : confs[i].v.signatureType = EOA}

\* Confirmation j comes before confirmation i: a smaller owner, or the same
\* owner and an earlier place in the list.
ComesBefore(confs, j, i) ==
    \/ OwnerNumber(confs[j]) < OwnerNumber(confs[i])
    \/ OwnerNumber(confs[j]) = OwnerNumber(confs[i]) /\ j < i

ExpectedAggregate(confs) ==
    LET eoa == EoaIndices(confs)
        rank(i) == Cardinality({j \in eoa : ComesBefore(confs, j, i)}) + 1
        at(r) == CHOOSE i \in eoa : rank(i) = r
    IN  Flatten([r \in 1..Cardinality(eoa) |-> SigBytes(confs[at(r)].v.signature)])

UnsignedWithConfirmations ==
    /\ Done("parse_signatures")
    /\ ~Truthy(arg.v.signatures)
    /\ Truthy(arg.v.confirmations)

\* C1: with an empty `signatures` field and a non-empty `confirmations` list,
\* parse_signatures returns the signature bytes of the EOA confirmations,
\* concatenated in ascending order of the owner address read as a base-16
\* number; confirmations of any other type contribute nothing.
C1_EoaSortedConcatenation ==
    UnsignedWithConfirmations =>
        ret = Return(PyBytes(ExpectedAggregate(arg.v.confirmations.v)))

Conf(o, s, ty) == PyDict([owner |-> o, signature |-> s, signatureType |-> ty])

\* The spec's example: owners 0x02 (b), 0x01 (a), and a contract signature.
C1_Witness ==
    /\ UnsignedWithConfirmations
    /\ arg.v.confirmations.v =
          <<Conf(PyStr(<<"0", "x", "0", "2">>), PyStr(<<"0", "x", "B", "b">>), EOA),
            Conf(PyStr(<<"0", "x", "0", "1">>), PyStr(<<"0", "x", "a", "a">>), EOA),
            Conf(PyStr(<<"0", "x", "0", "A">>), PyStr(<<"0", "x", "a", "a">>),
                 CONTRACT_SIGNATURE)>>
    /\ ret = Return(PyBytes(<<170, 187>>))

EoaOwners(confs) == {OwnerNumber(confs[i]) : i \in EoaIndices(confs)}

\* C2: the aggregate holds exactly one signature for each owner that has an
\* EOA confirmation, also when an owner confirms more than once.  (Every
\* signature of the model is one byte long.)
C2_OneSignaturePerOwner ==
    UnsignedWithConfirmations =>
        /\ ret.kind = "return"
        /\ ret.value.t = "bytes"
        /\ Len(ret.value.v) = Cardinality(EoaOwners(arg.v.confirmations.v))

NoSignaturesYet ==
    /\ Done("get_safe_transaction")
    /\ arg.response.ok
    /\ ~Truthy(arg.response.json.v.signatures)
    /\ EoaIndices(arg.response.json.v.confirmations.v) = {}

\* C3: when no signatures exist yet (empty `signatures`, and no EOA
\* confirmation), the transaction get_safe_transaction returns carries the
\* empty byte string as its signatures, never None.
C3_EmptyNotAbsent ==
    NoSignaturesYet =>
        /\ ret.kind = "return"
        /\ ret.value[1].signatures = PyBytes(<<>>)

C3_Witness ==
    /\ NoSignaturesYet
    /\ arg.response.json.v.signatures = None
    /\ arg.response.json.v.confirmations = PyList(<<>>)
    /\ ret.value[1].signatures = PyBytes(<<>>)

\* C4: a non-empty `signatures` field is returned verbatim, whatever the
\* confirmations are.
C4_SignaturesVerbatim ==
    (Done("parse_signatures") /\ Truthy(arg.v.signatures)) =>
        ret = Return(arg.v.signatures)

C4_Witness ==
    /\ Done("parse_signatures")
    /\ arg.v.signatures = PyStr(<<"0", "x", "c", "c", "d", "d">>)
    /\ Len(arg.v.confirmations.v) = 2
    /\ arg.v.confirmations.v[1].v.signatureType = EOA
    /\ arg.v.confirmations.v[2].v.signatureType = CONTRACT_SIGNATURE
    /\ ret = Return(PyStr(<<"0", "x", "c", "c", "d", "d">>))

\* C8: a non-empty transaction hash field is attached to the returned
\* transaction and returned as the second element of the pair; an empty or
\* null field gives None and nothing attached; and the second element is
\* always the attached hash, None exactly when none is attached.
C8_HashAttachedAndReturned ==
    (Done("get_safe_transaction") /\ arg.response.ok) =>
        LET field == arg.response.json.v.transactionHash
            safe_tx == ret.value[1]
            tx_hash == ret.value[2]
        IN  /\ Truthy(field) => tx_hash # None /\ safe_tx.tx_hash = tx_hash
            /\ ~Truthy(field) => tx_hash = None /\ safe_tx.tx_hash = None
            /\ tx_hash = safe_tx.tx_hash

(***************************************************************************)
(* The other relay operations: what each does with the response.           *)
(***************************************************************************)
\* A slip: the status of the response not looked at.
get_balances_unchecked(response) == Return(response.json)

get_balances(response) ==
    IF ~response.ok
    THEN SafeAPIException(<<"Cannot get balances: ">>, response)
    ELSE Return(response.json)

get_transactions(response) ==
    IF ~response.ok
    THEN SafeAPIException(<<"Cannot get transactions: ">>, response)
    ELSE Return(dict_get(response.json, "results", PyList(<<>>)))

get_delegates(response) ==
    IF ~response.ok
    THEN SafeAPIException(<<"Cannot get delegates: ">>, response)
    ELSE Return(dict_get(response.json, "results", PyList(<<>>)))

post_signatures(safe_tx_hash, response) ==
    IF ~response.ok
    THEN SafeAPIException(
            <<"Cannot post signatures for tx with safe-tx-hash=">>
                \o safe_tx_hash \o <<": ">>, response)
    ELSE Return(None)

add_delegate(response) ==
    IF ~response.ok
    THEN SafeAPIException(<<"Cannot add delegate: ">>, response)
    ELSE Return(None)

remove_delegate(response) ==
    IF ~response.ok
    THEN SafeAPIException(<<"Cannot remove delegate: ">>, response)
    ELSE Return(None)

post_transaction(response) ==
    IF ~response.ok
    THEN SafeAPIException(<<"Error posting transaction: ">>, response)
    ELSE Return(None)

\* Web3.keccak(text=...): a hash, taken to be injective.
keccak(text) == [keccak |-> text]

\* int(time.time()) of a clock reading in half seconds.
int_time(t) == t \div 2

\* A slip: the seconds hashed without the division into buckets.
hash_of_seconds(delegate_address, t) ==
    keccak(delegate_address.v \o str(PyInt(int_time(t))))

create_delegate_message_hash(delegate_address, t) ==
    LET totp == int_time(t) \div SecondsPerBucket
    IN  keccak(delegate_address.v \o str(PyInt(totp)))

\* signer_account.signHash(h).signature.hex()
signHash(signer_account, h) == [signer |-> signer_account, hash |-> h]

random_sender == PyStr(<<"0", "x", "0", "0", "0", "2">>)

post_transaction_data(safe_tx) ==
    [to |-> safe_tx.to,
     value |-> safe_tx.value,
     data |-> IF Truthy(safe_tx.data) THEN PyStr(hex(safe_tx.data)) ELSE None,
     operation |-> safe_tx.operation,
     gasToken |-> safe_tx.gas_token,
     safeTxGas |-> safe_tx.safe_tx_gas,
     baseGas |-> safe_tx.base_gas,
     gasPrice |-> safe_tx.gas_price,
     refundReceiver |-> safe_tx.refund_receiver,
     nonce |-> safe_tx.safe_nonce,
     contractTransactionHash |-> PyStr(hex(safe_tx.safe_tx_hash)),
     sender |-> IF Len(safe_tx.sorted_signers) > 0
                THEN safe_tx.sorted_signers[1]
                ELSE random_sender,
     signature |-> IF Truthy(safe_tx.signatures)
                   THEN PyStr(hex(safe_tx.signatures))
                   ELSE None,
     origin |-> "Safe-CLI"]

safes_path(safe_address, rest) ==
    <<"/api/v1/safes/">> \o safe_address.v \o rest

(***************************************************************************)
(* Inputs of the relay operations.                                         *)
(***************************************************************************)
SafeAddresses == {PyStr(<<"0", "x", "5", "a">>), PyStr(<<"0", "x", "5", "B">>)}
Delegates == {PyStr(<<"0", "x", "d", "1">>), PyStr(<<"0", "x", "d", "1", "1">>)}

Balance == PyDict([tokenAddress |-> None, balance |-> PyStr(<<"5">>)])
ListResponses ==
    ErrorResponses \cup
        {OkResponse(PyList(<<>>)), OkResponse(PyList(<<Balance>>))}
PageResponses ==
    ErrorResponses \cup
        {OkResponse(EmptyDict),
         OkResponse(PyDict([count |-> PyInt(0), results |-> PyList(<<>>)])),
         OkResponse(PyDict([count |-> PyInt(1), results |-> PyList(<<Balance>>)]))}
VoidResponses == ErrorResponses \cup {OkResponse(EmptyDict)}
SampleTxResponses ==
    ErrorResponses \cup
        {OkResponse(RawTx(s, PyList(<<>>), h)) :
            s \in SignaturesFields, h \in TransactionHashFields}

PostedSafeTxs ==
    {[safe_address |-> PyStr(<<"0", "x", "5", "a">>),
      to |-> PyStr(<<"0", "x", "7", "0">>),
      value |-> 10,
      data |-> d,
      operation |-> 0,
      gas_token |-> PyStr(<<"0", "x", "0", "0">>),
      safe_tx_gas |-> 0,
      base_gas |-> 0,
      gas_price |-> 0,
      refund_receiver |-> PyStr(<<"0", "x", "0", "0">>),
      safe_nonce |-> 7,
      safe_tx_hash |-> PyBytes(<<171, 1>>),
      sorted_signers |-> ss,
      signatures |-> sg] :
        d \in {PyBytes(<<>>), PyBytes(<<1>>)},
        ss \in {<<>>, <<PyStr(<<"0", "x", "0", "1">>)>>},
        sg \in {PyBytes(<<>>), PyBytes(<<170>>)}}

\* The response is filled in when the request is answered.
DelegateCall(safe, delegate) ==
    [safe_address |-> safe, delegate_address |-> delegate, label |-> "label",
     signer_account |-> "alice", response |-> None]

(***************************************************************************)
(* Actions of the relay operations.                                        *)
(***************************************************************************)
GetBalances ==
    /\ Calling("get_balances")
    /\ requests' = _get_request(safes_path(arg.safe_address, <<"/balances/">>))
    /\ ret' = get_balances(arg.response)
    /\ pc' = "done"
    /\ UNCHANGED <<op, arg, now, signed, client>>

GetTransactions ==
    /\ Calling("get_transactions")
    /\ requests' =
          _get_request(safes_path(arg.safe_address, <<"/multisig-transactions/">>))
    /\ ret' = get_transactions(arg.response)
    /\ pc' = "done"
    /\ UNCHANGED <<op, arg, now, signed, client>>

GetDelegates ==
    /\ Calling("get_delegates")
    /\ requests' = _get_request(safes_path(arg.safe_address, <<"/delegates/">>))
    /\ ret' = get_delegates(arg.response)
    /\ pc' = "done"
    /\ UNCHANGED <<op, arg, now, signed, client>>

PostSignatures ==
    /\ Calling("post_signatures")
    /\ LET safe_tx_hash == hex(HexBytes(arg.safe_tx_hash))
       IN  /\ requests' =
                _post_request(
                    multisig_transaction_path(safe_tx_hash) \o <<"confirmations/">>,
                    [signature |-> PyStr(hex(HexBytes(arg.signatures)))])
           /\ ret' = post_signatures(safe_tx_hash, arg.response)
    /\ pc' = "done"
    /\ UNCHANGED <<op, arg, now, signed, client>>

\* The two hashes signed last, the latest first.
Signed(name, delegate, h) ==
    <<[op |-> name, delegate |-> delegate, at |-> now, hash |-> h]>>
        \o SubSeq(signed, 1, IF Len(signed) > 0 THEN 1 ELSE 0)

AddDelegate ==
    /\ Calling("add_delegate")
    /\ \E response \in VoidResponses :
          LET hash_to_sign ==
                  create_delegate_message_hash(arg.delegate_address, now)
              signature == signHash(arg.signer_account, hash_to_sign)
              add_payload == [safe |-> arg.safe_address,
                              delegate |-> arg.delegate_address,
                              signature |-> signature,
                              label |-> arg.label]
          IN  /\ signed' = Signed("add_delegate", arg.delegate_address, hash_to_sign)
              /\ requests' =
                    _post_request(safes_path(arg.safe_address, <<"/delegates/">>),
                                  add_payload)
              /\ arg' = [arg EXCEPT !.response = response]
              /\ ret' = add_delegate(response)
    /\ pc' = "done"
    /\ UNCHANGED <<op, now, client>>

RemoveDelegate ==
    /\ Calling("remove_delegate")
    /\ \E response \in VoidResponses :
          LET hash_to_sign ==
                  create_delegate_message_hash(arg.delegate_address, now)
              signature == signHash(arg.signer_account, hash_to_sign)
              remove_payload == [signature |-> signature]
          IN  /\ signed' =
                    Signed("remove_delegate", arg.delegate_address, hash_to_sign)
              /\ requests' =
                    _delete_request(
                        safes_path(arg.safe_address,
                                   <<"/delegates/">> \o arg.delegate_address.v
                                        \o <<"/">>),
                        remove_payload)
              /\ arg' = [arg EXCEPT !.response = response]
              /\ ret' = remove_delegate(response)
    /\ pc' = "done"
    /\ UNCHANGED <<op, now, client>>

PostTransaction ==
    /\ Calling("post_transaction")
    /\ LET url == urljoin(base_url,
                          safes_path(arg.safe_tx.safe_address,
                                     <<"/multisig-transactions/">>))
       IN  requests' = requests_post(url, post_transaction_data(arg.safe_tx))
    /\ ret' = post_transaction(arg.response)
    /\ pc' = "done"
    /\ UNCHANGED <<op, arg, now, signed, client>>

\* After a delegate call returned or raised, the caller makes another one,
\* at the same instant of the clock or at a later one.
DelegateCallLater ==
    /\ pc = "done"
    /\ op \in {"add_delegate", "remove_delegate"}
    /\ \E t \in Instants, o \in {"add_delegate", "remove_delegate"},
          delegate \in Delegates :
          /\ t >= now
          /\ now' = t
          /\ op' = o
          /\ arg' = DelegateCall(arg.safe_address, delegate)
    /\ pc' = "call"
    /\ ret' = Return(None)
    /\ requests' = <<>>
    /\ UNCHANGED <<signed, client>>

RelayInit ==
    \/ \E a \in SafeAddresses, r \in ListResponses :
          Pending("get_balances", [safe_address |-> a, response |-> r])
    \/ \E a \in SafeAddresses, r \in PageResponses :
          \/ Pending("get_transactions", [safe_address |-> a, response |-> r])
          \/ Pending("get_delegates", [safe_address |-> a, response |-> r])
    \/ \E h \in TxHashInputs, r \in SampleTxResponses :
          GetSafeTransactionCall(h, r)
    \/ \E h \in TxHashInputs, r \in VoidResponses :
          Pending("post_signatures",
                  [safe_tx_hash |-> h, signatures |-> PyBytes(<<170, 187>>),
                   response |-> r])
    \/ \E o \in {"add_delegate", "remove_delegate"}, a \in SafeAddresses,
          delegate \in Delegates :
          Pending(o, DelegateCall(a, delegate))
    \/ \E tx \in PostedSafeTxs, r \in VoidResponses :
          Pending("post_transaction", [safe_tx |-> tx, response |-> r])

RelayNext ==
    \/ GetBalances
    \/ GetTransactions
    \/ GetDelegates
    \/ GetSafeTransaction
    \/ PostSignatures
    \/ AddDelegate
    \/ RemoveDelegate
    \/ PostTransaction
    \/ DelegateCallLater

SpecRelay == RelayInit /\ [][RelayNext]_vars

(***************************************************************************)
(* Properties of the relay operations.                                     *)
(***************************************************************************)
RelayOperations ==
    {"get_balances", "get_transactions", "get_delegates", "get_safe_transaction",
     "post_signatures", "add_delegate", "remove_delegate", "post_transaction"}

EndsWith(s, suffix) ==
    /\ Len(s) >= Len(suffix)
    /\ SubSeq(s, Len(s) - Len(suffix) + 1, Len(s)) = suffix

\* C7: one invocation of a relay operation issues exactly one HTTP request;
\* after a non-2xx response it raises SafeAPIException with the response
\* body in its message, and returns no normal result.
C7_OneRequestNoRecovery ==
    (pc = "done" /\ op \in RelayOperations) =>
        /\ Len(requests) = 1
        /\ ~arg.response.ok =>
              /\ ret.kind = "raise"
              /\ ret.exc = "SafeAPIException"
              /\ EndsWith(ret.message, arg.response.content)

C7_Witness ==
    /\ Done("get_balances")
    /\ ~arg.response.ok
    /\ Len(requests) = 1
    /\ requests[1].method = "GET"
    /\ ret = Raise("SafeAPIException", <<"Cannot get balances: ", "Not found.">>)

\* floor(POSIX seconds / 3600) of a clock reading in half seconds.
HourBucket(t) == t \div (2 * SecondsPerBucket)

\* C10: for one delegate address, the hashes of two invocations of
\* add_delegate or remove_delegate are equal when both fall in the same
\* one-hour bucket of the clock, and differ when they fall in different ones.
C10_HashPerHourBucket ==
    \A i, j \in 1..Len(signed) :
        signed[i].delegate = signed[j].delegate =>
            (signed[i].hash = signed[j].hash
                <=> HourBucket(signed[i].at) = HourBucket(signed[j].at))

C10_Witness ==
    /\ Len(signed) = 2
    /\ signed[1].op = "remove_delegate"
    /\ signed[2].op = "add_delegate"
    /\ signed[1].delegate = signed[2].delegate
    /\ signed[1].at > signed[2].at
    /\ HourBucket(signed[1].at) = HourBucket(signed[2].at)
    /\ signed[1].hash = signed[2].hash

(***************************************************************************)
(* BlockscoutClient.                                                       *)
(***************************************************************************)
NETWORK_WITH_URL ==
    [XDAI |-> "https://blockscout.com/poa/xdai/",
     MATIC |-> "https://polygon-explorer-mainnet.chainstacklabs.com/",
     MUMBAI |-> "https://polygon-explorer-mumbai.chainstacklabs.com/",
     ENERGY_WEB_CHAIN |-> "https://explorer.energyweb.org/",
     VOLTA |-> "https://volta-explorer.energyweb.org/",
     OLYMPUS |-> "https://explorer.polis.tech",
     BOBA_RINKEBY |-> "https://blockexplorer.rinkeby.boba.network/",
     BOBA |-> "https://blockexplorer.boba.network/",
     GATHER_DEVNET |-> "https://devnet-explorer.gather.network/",
     GATHER_TESTNET |-> "https://testnet-explorer.gather.network/",
     GATHER_MAINNET |-> "https://explorer.gather.network/",
     METIS_TESTNET |-> "https://stardust-explorer.metis.io/",
     METIS |-> "https://andromeda-explorer.metis.io/",
     FUSE_MAINNET |-> "https://explorer.fuse.io/",
     VELAS_MAINNET |-> "https://evmexplorer.velas.com/",
     REI_MAINNET |-> "https://scan.rei.network/",
     REI_TESTNET |-> "https://scan-test.rei.network/",
     METER |-> "https://scan.meter.io/",
     METER_TESTNET |-> "https://scan-warringstakes.meter.io/",
     GODWOKEN_TESTNET |-> "https://v1.betanet.gwscan.com/",
     VENIDIUM_TESTNET |-> "https://evm-testnet.venidiumexplorer.com/",
     VENIDIUM |-> "https://evm.venidiumexplorer.com/"]

\* Members of EthereumNetwork, in the table and not in it.
EthereumNetworks ==
    DOMAIN NETWORK_WITH_URL \cup {"MAINNET", "RINKEBY", "GOERLI", "ARBITRUM"}

\* NETWORK_WITH_URL.get(network)
network_url(network) ==
    IF network \in DOMAIN NETWORK_WITH_URL
    THEN PyStr(<<NETWORK_WITH_URL[network]>>)
    ELSE None

\* A slip: the session created before the table is consulted.
init_session_first(network) ==
    LET url == network_url(network)
    IN  IF url = None
        THEN [client |-> [constructed |-> FALSE, network |-> network,
                          base_url |-> url, grahpql_url |-> None,
                          sessions |-> 1],
              outcome |-> Raise("BlockScoutConfigurationProblem",
                                <<"Network ", network, " not supported">>)]
        ELSE [client |-> [constructed |-> TRUE, network |-> network,
                          base_url |-> url,
                          grahpql_url |-> PyStr(url.v \o <<"/graphiql">>),
                          sessions |-> 1],
              outcome |-> Return(None)]

\* __init__, statement by statement: the object as it is left, the outcome
\* and the number of requests.Session() objects created.
BlockscoutClient_init(network) ==
    LET url == network_url(network)
    IN  IF url = None
        THEN [client |-> [constructed |-> FALSE, network |-> network,
                          base_url |-> url, grahpql_url |-> None,
                          sessions |-> 0],
              outcome |-> Raise("BlockScoutConfigurationProblem",
                                <<"Network ", network, " not supported">>)]
        ELSE [client |-> [constructed |-> TRUE, network |-> network,
                          base_url |-> url,
                          grahpql_url |-> PyStr(url.v \o <<"/graphiql">>),
                          sessions |-> 1],
              outcome |-> Return(None)]

\* _do_request: what it returns for the response of its one POST.
_do_request(response) == IF ~response.ok THEN None ELSE response.json

\* json.loads of the ABI strings of the model; any other text is malformed.
json_loads(s) ==
    CASE s = PyStr(<<"[", "]">>) -> Return(PyList(<<>>))
      [] s = PyStr(<<"[", "{", "}", "]">>) -> Return(PyList(<<EmptyDict>>))
      [] OTHER -> Raise("JSONDecodeError", <<"Expecting value">>)

ContractMetadata(name, abi, flag) ==
    [t |-> "ContractMetadata", name |-> name, abi |-> abi, flag |-> flag]

get_contract_metadata(result) ==
    IF ~Truthy(result) THEN Return(None)
    ELSE IF "error" \in DOMAIN result.v THEN Return(None)
    ELSE LET data == dict_get(result, "data", EmptyDict)
         IN  IF data.t # "dict"
             THEN Raise("AttributeError", <<"'NoneType' object has no attribute 'get'">>)
             ELSE LET address == dict_get(data, "address", EmptyDict)
                  IN  IF ~Truthy(address) THEN Return(None)
                      ELSE IF "smartContract" \notin DOMAIN address.v
                      THEN Raise("KeyError", <<"smartContract">>)
                      ELSE LET smart_contract == address.v.smartContract
                               abi == json_loads(smart_contract.v.abi)
                           IN  IF ~Truthy(smart_contract) THEN Return(None)
                               ELSE IF abi.kind = "raise" THEN abi
                               ELSE Return(ContractMetadata(
                                        smart_contract.v.name, abi.value,
                                        PyBool(FALSE)))

graphql_query(address) ==
    <<"{address(hash: \"">> \o address.v
        \o <<"\") { hash, smartContract {name, abi} }}">>

(***************************************************************************)
(* Inputs of the explorer client: GraphQL answers of every shape.          *)
(***************************************************************************)
ContractAddresses == {PyStr(<<"0", "x", "C", "1">>), PyStr(<<"0", "x", "c", "2">>)}

SmartContracts ==
    {PyDict([name |-> PyStr(<<"Token">>), abi |-> a]) :
        a \in {PyStr(<<"[", "]">>), PyStr(<<"[", "{", "}", "]">>)}}

AddressRecords ==
    {PyDict([hash |-> PyStr(<<"0", "x", "C", "1">>)]),
     PyDict([hash |-> PyStr(<<"0", "x", "C", "1">>), smartContract |-> None])}
        \cup {PyDict([hash |-> PyStr(<<"0", "x", "C", "1">>), smartContract |-> c]) :
                c \in SmartContracts}

DataValues ==
    {None, EmptyDict, PyDict([address |-> None])}
        \cup {PyDict([address |-> a]) : a \in AddressRecords}

ErrorText == PyStr(<<"Something went wrong">>)

GraphqlPayloads ==
    {EmptyDict, PyDict([error |-> ErrorText]), PyDict([errors |-> ErrorText])}
        \cup {PyDict([data |-> d]) : d \in DataValues}
        \cup {PyDict([data |-> d, error |-> ErrorText]) : d \in DataValues}
        \cup {PyDict([data |-> d, errors |-> ErrorText]) : d \in DataValues}

GraphqlResponses ==
    ErrorResponses \cup {OkResponse(j) : j \in GraphqlPayloads}

(***************************************************************************)
(* Actions of the explorer client.                                         *)
(***************************************************************************)
Construct ==
    /\ Calling("__init__")
    /\ client' = BlockscoutClient_init(arg).client
    /\ ret' = BlockscoutClient_init(arg).outcome
    /\ requests' = <<>>
    /\ pc' = "done"
    /\ UNCHANGED <<op, arg, now, signed>>

\* A call on the constructed client; a failed construction leaves the caller
\* no object to call.
GetContractMetadata ==
    /\ pc = "done"
    /\ client.constructed
    /\ \E address \in ContractAddresses, response \in GraphqlResponses :
          /\ op' = "get_contract_metadata"
          /\ arg' = [address |-> address, response |-> response]
          /\ requests' = <<[method |-> "POST", url |-> client.grahpql_url,
                            json |-> [query |-> graphql_query(address)],
                            timeout |-> 10]>>
          /\ ret' = get_contract_metadata(_do_request(response))
    /\ UNCHANGED <<pc, now, signed, client>>

BlockscoutInit == \E network \in EthereumNetworks : Pending("__init__", network)

BlockscoutNext ==
    \/ Construct
    \/ GetContractMetadata

SpecBlockscout == BlockscoutInit /\ [][BlockscoutNext]_vars

(***************************************************************************)
(* Properties of the explorer client.                                      *)
(***************************************************************************)
HasKey(d, k) == d.t = "dict" /\ k \in DOMAIN d.v

\* The payload has no address record: `data` or `data.address` missing or null.
NoAddressRecord(j) ==
    \/ ~HasKey(j, "data")
    \/ j.v.data = None
    \/ ~HasKey(j.v.data, "address")
    \/ j.v.data.v.address = None

\* The address record has no smart contract: the key missing or null.
NoSmartContract(j) ==
    /\ ~NoAddressRecord(j)
    /\ \/ ~HasKey(j.v.data.v.address, "smartContract")
       \/ j.v.data.v.address.v.smartContract = None

NoMetadataCase(response) ==
    \/ ~response.ok
    \/ HasKey(response.json, "error")
    \/ NoAddressRecord(response.json)
    \/ NoSmartContract(response.json)

\* C5: get_contract_metadata returns None, and raises nothing, when the HTTP
\* status is not a success, when the payload has an `error` key, when it has
\* no address record, and when the record has no smart contract; it returns
\* a metadata object (name, decoded ABI, False) only in no such case.
C5_NoMetadataIsNone ==
    Done("get_contract_metadata") =>
        /\ NoMetadataCase(arg.response) => ret = Return(None)
        /\ (ret.kind = "return" /\ ret.value # None) =>
              /\ ~NoMetadataCase(arg.response)
              /\ ret.value.t = "ContractMetadata"
              /\ ret.value.name =
                    arg.response.json.v.data.v.address.v.smartContract.v.name
              /\ ret.value.flag = PyBool(FALSE)

\* C6: for a chain identifier outside the endpoint table the construction
\* fails with BlockScoutConfigurationProblem, having issued no HTTP request
\* and created no HTTP session; for one in the table it succeeds with
\* base_url the table's entry.
C6_UnsupportedChainFails ==
    /\ Done("__init__") =>
          IF arg \in DOMAIN NETWORK_WITH_URL
          THEN /\ ret = Return(None)
               /\ client.constructed
               /\ client.base_url = PyStr(<<NETWORK_WITH_URL[arg]>>)
               /\ requests = <<>>
          ELSE /\ ret.kind = "raise"
               /\ ret.exc = "BlockScoutConfigurationProblem"
               /\ ~client.constructed
               /\ client.sessions = 0
               /\ requests = <<>>
    /\ (pc = "done" /\ ~client.constructed) => (requests = <<>> /\ op = "__init__")

C6_Witness ==
    /\ Done("__init__")
    /\ arg = "MAINNET"
    /\ ret.kind = "raise"
    /\ ret.exc = "BlockScoutConfigurationProblem"
    /\ client.sessions = 0
    /\ requests = <<>>

(***************************************************************************)
(* TransactionServiceApi.data_decoded_to_text                              *)
(***************************************************************************)
Whitespace == {" ", "\n", "\t", "\r"}

RECURSIVE lstrip(_)
lstrip(s) == IF s # <<>> /\ Head(s) \in Whitespace THEN lstrip(Tail(s)) ELSE s

RECURSIVE rstrip(_)
rstrip(s) ==
    IF s # <<>> /\ s[Len(s)] \in Whitespace
    THEN rstrip(SubSeq(s, 1, Len(s) - 1))
    ELSE s

\* str.strip()
strip(s) == rstrip(lstrip(s))

RECURSIVE join(_, _)
join(sep, strs) ==
    IF strs = <<>> THEN <<>>
    ELSE IF Len(strs) = 1 THEN strs[1]
    ELSE strs[1] \o sep \o join(sep, Tail(strs))

\* sep.join(items) of the outcomes of the calls that compute the items: the
\* first call that raised ends the comprehension; an item that is not a str
\* makes join raise TypeError.
join_outcomes(sep, outs) ==
    LET raised == {i \in 1..Len(outs) : outs[i].kind = "raise"}
    IN  IF raised # {}
        THEN outs[CHOOSE i \in raised : \A j \in raised : i <= j]
        ELSE IF \E i \in 1..Len(outs) : outs[i].value.t # "str"
        THEN Raise("TypeError",
                   <<"sequence item: expected str instance, NoneType found">>)
        ELSE Return(PyStr(join(sep, [i \in 1..Len(outs) |-> outs[i].value.v])))

\* ",".join([str(parameter["value"]) for parameter in parameters])
joined_values(parameters) ==
    IF \E i \in 1..Len(parameters) : "value" \notin DOMAIN parameters[i].v
    THEN Raise("KeyError", <<"value">>)
    ELSE Return(PyStr(join(<<",">>,
                           [i \in 1..Len(parameters) |-> str(parameters[i].v.value)])))

RECURSIVE data_decoded_to_text(_)

\* The text one parameter adds in the loop: nothing without `decodedValue`.
parameter_text(method, parameter) ==
    IF "decodedValue" \notin DOMAIN parameter.v THEN Return(PyStr(<<>>))
    ELSE LET decoded_values == dict_get(parameter, "decodedValue", EmptyDict).v
             items == [i \in 1..Len(decoded_values) |->
                          data_decoded_to_text(
                              dict_get(decoded_values[i], "decodedData", EmptyDict))]
             joined == join_outcomes(<<"\n", " ", "-", " ">>, items)
         IN  IF joined.kind = "raise" THEN joined
             ELSE Return(PyStr(method \o <<":", "\n", " ", "-", " ">>
                                  \o joined.value.v \o <<"\n">>))

\* The loop over the parameters: text += ... for each, in order.
RECURSIVE loop_text(_, _)
loop_text(method, parameters) ==
    IF parameters = <<>> THEN Return(PyStr(<<>>))
    ELSE LET first == parameter_text(method, Head(parameters))
             rest == loop_text(method, Tail(parameters))
         IN  IF first.kind = "raise" THEN first
             ELSE IF rest.kind = "raise" THEN rest
             ELSE Return(PyStr(first.value.v \o rest.value.v))

data_decoded_to_text(data_decoded) ==
    IF ~Truthy(data_decoded) THEN Return(None)
    ELSE IF "method" \notin DOMAIN data_decoded.v THEN Raise("KeyError", <<"method">>)
    ELSE LET method == data_decoded.v.method.v
             parameters == dict_get(data_decoded, "parameters", PyList(<<>>)).v
             text == loop_text(method, parameters)
             plain == joined_values(parameters)
         IN  IF text.kind = "raise" THEN text
             ELSE IF Truthy(text.value) THEN Return(PyStr(strip(text.value.v)))
             ELSE IF plain.kind = "raise" THEN plain
             ELSE Return(PyStr(method \o <<":", " ">> \o plain.value.v))

(***************************************************************************)
(* Inputs of the formatter: decoded calls, plain and nested.               *)
(***************************************************************************)
transfer == PyStr(<<"t", "r", "a", "n", "s", "f", "e", "r">>)
multiSend == PyStr(<<"m", "u", "l", "t", "i", "S", "e", "n", "d">>)

PlainParameters ==
    {PyDict([name |-> PyStr(<<"v">>), value |-> v]) :
        v \in {PyStr(<<"0", "x", "7", "0">>), PyInt(100)}}

DecodedCall(method, parameters) ==
    PyDict([method |-> method, parameters |-> PyList(parameters)])

LeafCalls ==
    {PyDict([method |-> transfer])}
        \cup {DecodedCall(transfer, ps) : ps \in SeqsUpTo(PlainParameters, MaxParams)}

\* One entry of a `decodedValue` list: its decoded data absent, null, empty,
\* or a call.
Entry(decoded) ==
    PyDict([operation |-> PyInt(0), to |-> PyStr(<<"0", "x", "7", "0">>),
            decodedData |-> decoded])

NestedEntries ==
    {PyDict([operation |-> PyInt(0), to |-> PyStr(<<"0", "x", "7", "0">>)]),
     Entry(None), Entry(EmptyDict)}
        \cup {Entry(c) : c \in LeafCalls}

NestedParameter(entries) ==
    PyDict([name |-> PyStr(<<"t">>), value |-> PyStr(<<"0", "x">>),
            decodedValue |-> PyList(entries)])

\* A batch inside a batch, to take the recursion two levels deep.
InnerBatch ==
    DecodedCall(multiSend,
                <<NestedParameter(<<Entry(DecodedCall(transfer, <<>>))>>)>>)

Parameters ==
    PlainParameters
        \cup {NestedParameter(es) : es \in SeqsUpTo(NestedEntries, MaxNested)}
        \cup {NestedParameter(<<Entry(InnerBatch)>>)}

(***************************************************************************)
(* The formatter's action and specification.                               *)
(***************************************************************************)
DataDecodedToText ==
    /\ Calling("data_decoded_to_text")
    /\ ret' = data_decoded_to_text(arg)
    /\ requests' = <<>>
    /\ pc' = "done"
    /\ UNCHANGED <<op, arg, now, signed, client>>

DecodedInit ==
    \/ \E d \in {None, EmptyDict} \cup LeafCalls : Pending("data_decoded_to_text", d)
    \/ \E k \in 0..MaxParams :
          \E ps \in [1..k -> Parameters] :
             Pending("data_decoded_to_text", DecodedCall(multiSend, ps))

DecodedNext == DataDecodedToText

SpecDecoded == DecodedInit /\ [][DecodedNext]_vars

(***************************************************************************)
(* Properties of the formatter.                                            *)
(***************************************************************************)
StartsWith(s, prefix) ==
    Len(s) >= Len(prefix) /\ SubSeq(s, 1, Len(prefix)) = prefix

IsNested(parameters) ==
    \E i \in 1..Len(parameters) : "decodedValue" \in DOMAIN parameters[i].v

\* The values of plain parameters, as the model's inputs spell them.
ValueText(v) ==
    IF v = PyInt(100) THEN <<"1", "0", "0">> ELSE v.v

HasMethod(d) == d.t = "dict" /\ "method" \in DOMAIN d.v

ParametersOf(d) ==
    IF "parameters" \in DOMAIN d.v THEN d.v.parameters.v ELSE <<>>

\* C9: on a decoded call with a `method`, the formatter returns
\* `method: v1,v2,...` when no parameter carries a `decodedValue`, and
\* otherwise a multi-line text that starts with the method name and lists
\* the nested calls on indented lines; it never fails, also when a nested
\* entry's decoded data is absent or empty.
C9_FormatterTotal ==
    (Done("data_decoded_to_text") /\ HasMethod(arg)) =>
        LET method == arg.v.method.v
            parameters == ParametersOf(arg)
        IN  /\ ret.kind = "return"
            /\ ret.value.t = "str"
            /\ ~IsNested(parameters) =>
                  ret.value.v =
                      method \o <<":", " ">>
                          \o join(<<",">>,
                                  [i \in 1..Len(parameters) |->
                                      ValueText(parameters[i].v.value)])
            /\ IsNested(parameters) =>
                  StartsWith(ret.value.v, method \o <<":", "\n", " ", "-">>)

====
